---- MODULE Spec2Model ----
(***************************************************************************)
(* A model of svd_parser.py: list_registers walks the peripherals of an    *)
(* SVD document, resolves derivedFrom, and prints for every register the   *)
(* text block built by extract_typedef (packed bitfield struct + macros).  *)
(*                                                                         *)
(* A text is the sequence of its code points.  An optional XML element or  *)
(* attribute is a set: {} when it is absent, {text} when present.  The     *)
(* text of an element without content is None in the program: the empty    *)
(* text <<>> stands for it, since the XML parser never yields an empty     *)
(* string for an element.  An output line is a record; `kind` tells which  *)
(* statement of the program produced it.                                   *)
(***************************************************************************)
EXTENDS Integers, Sequences, FiniteSets, TLC

VARIABLES
    doc,                      \* root: the sequence of <peripheral> elements
    pi,                       \* position of the outer loop (line 9)
    ri,                       \* position of the inner loop (line 23)
    pc,                       \* "periph" | "regs" | "done" | "error"
    peripheral,               \* the loop variable of line 9 / 20: {} is None
    peripheral_name,          \* line 10
    peripheral_base_address,  \* line 11
    out                       \* stdout, one record per line

vars == <<doc, pi, ri, pc, peripheral, peripheral_name,
          peripheral_base_address, out>>

-----------------------------------------------------------------------------
(* Bounds of the model.                                                    *)

MaxFields == 2
MaxPeripherals == 2

-----------------------------------------------------------------------------
(* Texts.  Codes writes an ASCII text as its code points.                  *)

Upper ==
    " !\"#$%&'()*+,-./0123456789:;<=>?@ABCDEFGHIJKLMNOPQRSTUVWXYZ[\\]^_"
Lower == "abcdefghijklmnopqrstuvwxyz{|}~"

\* ord(c) of a printable ASCII character other than the grave accent.
Ord(c) ==
    IF \E i \in 1..Len(Upper) : SubSeq(Upper, i, i) = c
    THEN 31 + CHOOSE i \in 1..Len(Upper) : SubSeq(Upper, i, i) = c
    ELSE 96 + CHOOSE i \in 1..Len(Lower) : SubSeq(Lower, i, i) = c

Codes(s) == [i \in 1..Len(s) |-> Ord(SubSeq(s, i, i))]

Min(S) == CHOOSE x \in S : \A y \in S : x <= y
Max(S) == CHOOSE x \in S : \A y \in S : y <= x

StartsWith(t, p) == Len(t) >= Len(p) /\ SubSeq(t, 1, Len(p)) = p
EndsWith(t, p) ==
    Len(t) >= Len(p) /\ SubSeq(t, Len(t) - Len(p) + 1, Len(t)) = p

RECURSIVE Flatten(_)
Flatten(ss) == IF ss = <<>> THEN <<>> ELSE Head(ss) \o Flatten(Tail(ss))

Digit0 == Ord("0")
Digit9 == Ord("9")
LowerA == Ord("a")
LowerZ == Ord("z")
UpperA == Ord("A")
UpperZ == Ord("Z")
Underscore == Ord("_")
PlusSign == Ord("+")
MinusSign == Ord("-")
Space == Ord(" ")
QuestionMark == Ord("?")

\* str.isspace outside ASCII.
UnicodeSpaces ==
    {133, 160, 5760} \cup 8192..8202 \cup {8232, 8233, 8239, 8287, 12288}

\* The digit zero of every script: the ten decimal digits of a script are
\* consecutive code points (unicodedata.decimal).
DecimalZeros ==
    {48, 1632, 1776, 1984, 2406, 2534, 2662, 2790, 2918, 3046, 3174, 3302,
     3430, 3558, 3664, 3792, 3872, 4160, 4240, 6112, 6160, 6470, 6608, 6784,
     6800, 6992, 7088, 7232, 7248, 42528, 43216, 43264, 43472, 43504, 43600,
     44016, 65296, 66720, 68912, 69734, 69872, 69942, 70096, 70384, 70736,
     70864, 71248, 71360, 71472, 71904, 72016, 72784, 73040, 73120, 92768,
     92864, 93008, 120782, 120792, 120802, 120812, 120822, 123200, 123632,
     125264, 130032}

IsDecimal(c) == \E z \in DecimalZeros : z <= c /\ c <= z + 9
DecimalValue(c) == c - CHOOSE z \in DecimalZeros : z <= c /\ c <= z + 9

-----------------------------------------------------------------------------
(* Python integers.  int has no upper limit, so a number is kept as a sign *)
(* and a magnitude: the digits in a radix (2, 8, 10 or 16), least          *)
(* significant first, without leading zeros (<<>> is 0).  A number read    *)
(* from a numeral is kept in the radix of the numeral.  Sums, differences  *)
(* and comparisons are made digit by digit in the radix of the left        *)
(* operand, to which the right operand is brought first.                   *)

HexDigit(d) == IF d < 10 THEN Digit0 + d ELSE LowerA + d - 10

BigInt(neg, radix, mag) ==
    [neg |-> neg /\ mag # <<>>, radix |-> radix, mag |-> mag]

Reverse(ds) == [i \in 1..Len(ds) |-> ds[Len(ds) + 1 - i]]

\* The digits without leading zeros.
Trim(mag) == SubSeq(mag, 1, Max({0} \cup {i \in DOMAIN mag : mag[i] # 0}))

\* The digit at position i, 0 beyond the last digit.
DigitAt(mag, i) == IF i <= Len(mag) THEN mag[i] ELSE 0

\* a + b.  A carry enters position i when a position j below i has a digit
\* sum of the radix or more, and every position between j and i has a
\* digit sum of radix - 1 (which hands the carry on).
AddMag(a, b, radix) ==
    LET sum(i) == DigitAt(a, i) + DigitAt(b, i)
        carry(i) ==
            IF \E j \in 1..(i - 1) :
                    /\ sum(j) >= radix
                    /\ \A k \in (j + 1)..(i - 1) : sum(k) = radix - 1
            THEN 1 ELSE 0
    IN  Trim([i \in 1..(Max({Len(a), Len(b)}) + 1) |->
                (sum(i) + carry(i)) % radix])

\* a - b for a >= b.  Position i is borrowed from when a position j below
\* i has a smaller digit in a than in b, and every position between j and
\* i has the same digit in both (which hands the borrow on).
SubMag(a, b, radix) ==
    LET borrow(i) ==
            IF \E j \in 1..(i - 1) :
                    /\ a[j] < DigitAt(b, j)
                    /\ \A k \in (j + 1)..(i - 1) : a[k] = DigitAt(b, k)
            THEN 1 ELSE 0
    IN  Trim([i \in DOMAIN a |->
                (a[i] - DigitAt(b, i) - borrow(i) + radix) % radix])

\* a < b
LessMag(a, b) ==
    \/ Len(a) < Len(b)
    \/ /\ Len(a) = Len(b)
       /\ \E i \in DOMAIN a :
            a[i] < b[i] /\ \A j \in (i + 1)..Len(a) : a[j] = b[j]

\* mag * k + c, in a radix
RECURSIVE MulAdd(_, _, _, _)
MulAdd(mag, k, c, radix) ==
    IF mag = <<>>
    THEN IF c = 0 THEN <<>>
         ELSE <<c % radix>> \o MulAdd(<<>>, k, c \div radix, radix)
    ELSE <<(Head(mag) * k + c) % radix>>
         \o MulAdd(Tail(mag), k, (Head(mag) * k + c) \div radix, radix)

\* The magnitude whose digits in the radix `from`, most significant first,
\* follow those already taken into acc, in the radix `to`.
RECURSIVE Horner(_, _, _, _)
Horner(digits, from, to, acc) ==
    IF digits = <<>> THEN acc
    ELSE Horner(Tail(digits), from, to, MulAdd(acc, from, Head(digits), to))

\* The number, with its digits in the given radix.
ToRadix(x, radix) ==
    IF x.radix = radix THEN x
    ELSE BigInt(x.neg, radix, Horner(Reverse(x.mag), x.radix, radix, <<>>))

\* x + y
BigAdd(x, y) ==
    LET Sum(z) ==
            IF x.neg = z.neg
            THEN BigInt(x.neg, x.radix, AddMag(x.mag, z.mag, x.radix))
            ELSE IF LessMag(x.mag, z.mag)
            THEN BigInt(z.neg, x.radix, SubMag(z.mag, x.mag, x.radix))
            ELSE BigInt(x.neg, x.radix, SubMag(x.mag, z.mag, x.radix))
    IN  Sum(ToRadix(y, x.radix))

\* -x and x - y
BigNeg(x) == BigInt(~x.neg, x.radix, x.mag)
BigSub(x, y) == BigAdd(x, BigNeg(y))

\* x < y
BigLess(x, y) ==
    LET Less(z) ==
            IF x.neg # z.neg THEN x.neg
            ELSE IF x.neg THEN LessMag(z.mag, x.mag)
            ELSE LessMag(x.mag, z.mag)
    IN  Less(ToRadix(y, x.radix))

\* x == y
BigEq(x, y) == x = ToRadix(y, x.radix)

\* The integer literals of the program (-1, 1, 8, 16, 32, 64) and the
\* lengths of its lists, as numbers in radix 10.
RECURSIVE NatDigits(_)
NatDigits(n) == IF n = 0 THEN <<>> ELSE <<n % 10>> \o NatDigits(n \div 10)
PyInt(n) == BigInt(n < 0, 10, NatDigits(IF n < 0 THEN 0 - n ELSE n))
Zero == PyInt(0)
One == PyInt(1)
MinusOne == PyInt(-1)

HexPrefix == Codes("0x")

\* hex(x)
Hex(x) ==
    LET Written(z) ==
            (IF z.neg THEN <<MinusSign>> ELSE <<>>) \o HexPrefix
            \o (IF z.mag = <<>> THEN <<Digit0>>
                ELSE [i \in 1..Len(z.mag) |->
                        HexDigit(z.mag[Len(z.mag) + 1 - i])])
    IN  Written(ToRadix(x, 16))

-----------------------------------------------------------------------------
(* int(text), int(text, 16) and int(text, 0).  The decimal digits of every *)
(* script are read as ASCII digits and the spaces outside ASCII as a       *)
(* space; then surrounding whitespace is dropped, a sign may lead,         *)
(* int(text, 16) takes an optional 0x and int(text, 0) takes the base from *)
(* a 0x, 0o or 0b prefix, and single underscores may separate the digits.  *)
(* A decimal literal of more than sys.int_max_str_digits digits is         *)
(* refused.                                                                *)

MaxStrDigits == 4300

\* The ASCII whitespace that int() skips.
Whitespace == 9..13 \cup {Space}

\* The character as int() reads it; '?' for one it cannot read.
ToAscii(c) ==
    IF c < 127 THEN c
    ELSE IF c \in UnicodeSpaces THEN Space
    ELSE IF IsDecimal(c) THEN Digit0 + DecimalValue(c)
    ELSE QuestionMark

\* The value of a digit; 37 for a character that is no digit in any base.
DigitVal(c) ==
    IF Digit0 <= c /\ c <= Digit9 THEN c - Digit0
    ELSE IF LowerA <= c /\ c <= LowerZ THEN c - LowerA + 10
    ELSE IF UpperA <= c /\ c <= UpperZ THEN c - UpperA + 10
    ELSE 37

\* The magnitude written by the digits ds, most significant first.
DigitsValue(ds) == Trim(Reverse([i \in DOMAIN ds |-> DigitVal(ds[i])]))

ValueError == [ok |-> FALSE, val |-> Zero]
Parsed(n) == [ok |-> TRUE, val |-> n]
\* A magnitude read in a radix, or the refusal to read one.
Magnitude(radix, mag) == [ok |-> TRUE, radix |-> radix, val |-> mag]
NoMagnitude == [ok |-> FALSE, radix |-> 10, val |-> <<>>]

Strip(t) ==
    LET Between(u, kept) ==
            IF kept = {} THEN <<>> ELSE SubSeq(u, Min(kept), Max(kept))
        Kept(u) == Between(u, {i \in DOMAIN u : u[i] \notin Whitespace})
    IN  Kept([i \in DOMAIN t |-> ToAscii(t[i])])

HasPrefix(t, letters) == Len(t) >= 2 /\ t[1] = Digit0 /\ t[2] \in letters
HasHexPrefix(t) == HasPrefix(t, {Ord("x"), Ord("X")})
HasOctPrefix(t) == HasPrefix(t, {Ord("o"), Ord("O")})
HasBinPrefix(t) == HasPrefix(t, {Ord("b"), Ord("B")})

IsDigitChar(c) == c # Underscore

\* The digits of a literal after its sign and prefix, in the given radix.
\* One underscore may follow a prefix; otherwise an underscore stands
\* between two digits.  The number of digits is limited in base 10 only.
Digits(body, radix, prefixed) ==
    LET b == IF prefixed /\ body # <<>> /\ Head(body) = Underscore
             THEN Tail(body) ELSE body
        ds == SelectSeq(b, IsDigitChar)
    IN  IF /\ b # <<>>
           /\ b[1] # Underscore
           /\ b[Len(b)] # Underscore
           /\ \A i \in 1..(Len(b) - 1) :
                ~(b[i] = Underscore /\ b[i + 1] = Underscore)
           /\ \A i \in DOMAIN b : b[i] = Underscore \/ DigitVal(b[i]) < radix
           /\ (radix = 10 => Len(ds) <= MaxStrDigits)
        THEN Magnitude(radix, DigitsValue(ds))
        ELSE NoMagnitude

\* int(text)
DecMagnitude(u) == Digits(u, 10, FALSE)

\* int(text, 16): an optional 0x
HexMagnitude(u) ==
    Digits(IF HasHexPrefix(u) THEN SubSeq(u, 3, Len(u)) ELSE u, 16,
           HasHexPrefix(u))

\* int(text, 0): the base is that of the prefix, 10 without one; a decimal
\* literal with a leading zero is refused unless it is zero.
AutoRadix(u) ==
    IF HasHexPrefix(u) THEN 16
    ELSE IF HasOctPrefix(u) THEN 8
    ELSE IF HasBinPrefix(u) THEN 2
    ELSE 10
AutoMagnitude(u) ==
    LET Checked(radix, m) ==
            IF radix = 10 /\ m.ok /\ Head(u) = Digit0 /\ m.val # <<>>
            THEN NoMagnitude
            ELSE m
        InRadix(radix) ==
            Checked(radix,
                    Digits(IF radix = 10 THEN u ELSE SubSeq(u, 3, Len(u)),
                           radix, radix # 10))
    IN  InRadix(AutoRadix(u))

\* The text without surrounding whitespace, s, is a sign, then the
\* magnitude.
Negative(s) == s # <<>> /\ Head(s) = MinusSign
Unsigned(s) ==
    IF s # <<>> /\ Head(s) \in {PlusSign, MinusSign} THEN Tail(s) ELSE s
Signed(neg, m) ==
    IF m.ok THEN Parsed(BigInt(neg, m.radix, m.val)) ELSE ValueError

\* int(text)
IntDec(t) ==
    LET Literal(s) == Signed(Negative(s), DecMagnitude(Unsigned(s)))
    IN  Literal(Strip(t))

\* int(text, 16)
IntHex(t) ==
    LET Literal(s) == Signed(Negative(s), HexMagnitude(Unsigned(s)))
    IN  Literal(Strip(t))

\* int(text, 0)
IntAuto(t) ==
    LET Literal(s) == Signed(Negative(s), AutoMagnitude(Unsigned(s)))
    IN  Literal(Strip(t))

-----------------------------------------------------------------------------
(* str(int), as an f-string writes a number: the decimal digits, most      *)
(* significant first, after a '-' for a negative number.  A number of more *)
(* than sys.int_max_str_digits digits is refused (ValueError).             *)

Str(x) ==
    LET Written(z) ==
            (IF z.neg THEN <<MinusSign>> ELSE <<>>)
            \o (IF z.mag = <<>> THEN <<Digit0>>
                ELSE [i \in 1..Len(z.mag) |->
                        Digit0 + z.mag[Len(z.mag) + 1 - i]])
    IN  Written(ToRadix(x, 10))

StrRaises(x) == Len(ToRadix(x, 10).mag) > MaxStrDigits

\* The text of an element without content is None; an f-string writes it
\* as 'None'.  A text <<>> stands for None.
None == Codes("None")
Format(text) == IF text = <<>> THEN None ELSE text

Repeat(c, n) == [i \in 1..n |-> c]

-----------------------------------------------------------------------------
(* Output lines.  The width of a member is the number that the f-string    *)
(* writes; the other lines have none (0).                                  *)

Line(k, t, n, w, p, d, a) ==
    [kind |-> k, type |-> t, name |-> n, width |-> w, pad |-> p,
     deref |-> d, addr |-> a]

\* 'typedef struct __attribute__((__packed__)) {'
OpenLine == Line("open", <<>>, <<>>, Zero, 0, FALSE, <<>>)
\* '    {register_type} {field_name}{pad}: {width};'  (name <<>> is unnamed)
MemberLine(t, n, w, p) == Line("member", t, n, w, p, FALSE, <<>>)
\* '} {peripheral_name}_{register_name}bits_t;'
CloseLine(sym) == Line("close", <<>>, sym, Zero, 0, FALSE, <<>>)
\* '#define {name} ((volatile {type} *){addr})', dereferenced or not
MacroLine(n, t, d, a) == Line("macro", t, n, Zero, 0, d, a)
\* a '// ...' line of list_registers, and the empty line
CommentLine(k, text) == Line(k, <<>>, text, Zero, 0, FALSE, <<>>)
BlankLine == Line("blank", <<>>, <<>>, Zero, 0, FALSE, <<>>)

-----------------------------------------------------------------------------
(* get_register_type                                                       *)

Uint8 == Codes("uint8_t")
Uint16 == Codes("uint16_t")
Uint32 == Codes("uint32_t")
Uint64 == Codes("uint64_t")

\* The text returned; line 43 raises instead when StrRaises(size).
get_register_type(size) ==
    IF BigEq(size, PyInt(8)) THEN Uint8
    ELSE IF BigEq(size, PyInt(16)) THEN Uint16
    ELSE IF BigEq(size, PyInt(32)) THEN Uint32
    ELSE IF BigEq(size, PyInt(64)) THEN Uint64
    ELSE Codes("uint") \o Str(size) \o Codes("_t")

-----------------------------------------------------------------------------
(* extract_typedef: the field dictionary.                                  *)

\* element.text / the value of an attribute, for one that is present.
Text(element) == CHOOSE t \in element : TRUE

\* field_dict[field_name] = (start, end): a key that is already present
\* keeps its position and takes the new value.
DictPut(fd, n, s, e) ==
    IF \E i \in DOMAIN fd : fd[i].name = n
    THEN [i \in DOMAIN fd |->
            IF fd[i].name = n THEN [name |-> n, start |-> s, end |-> e]
            ELSE fd[i]]
    ELSE Append(fd, [name |-> n, start |-> s, end |-> e])

\* The loop over register.findall(".//field"): the dictionary, or the
\* exception raised at the first field that lacks an element or holds a
\* text int() refuses.
RECURSIVE ReadFields(_, _)
ReadFields(fields, fd) ==
    IF fields = <<>> THEN [ok |-> TRUE, dict |-> fd]
    ELSE
        LET f == Head(fields) IN
        IF f.name = {} \/ f.bitOffset = {} \/ f.bitWidth = {}
        THEN [ok |-> FALSE, dict |-> fd]
        ELSE
            LET Put(o, w) ==
                    IF ~o.ok \/ ~w.ok
                    THEN [ok |-> FALSE, dict |-> fd]
                    ELSE ReadFields(Tail(fields),
                                    DictPut(fd, Text(f.name), o.val,
                                            BigAdd(BigAdd(o.val, w.val),
                                                   MinusOne)))
            IN  Put(IntDec(Text(f.bitOffset)), IntDec(Text(f.bitWidth)))

\* sorted(items, key=start): a stable insertion sort.
RECURSIVE InsertByStart(_, _)
InsertByStart(sorted, x) ==
    IF sorted = <<>> THEN <<x>>
    ELSE IF BigLess(x.start, Head(sorted).start) THEN <<x>> \o sorted
    ELSE <<Head(sorted)>> \o InsertByStart(Tail(sorted), x)

RECURSIVE SortByStart(_)
SortByStart(fd) ==
    IF fd = <<>> THEN <<>>
    ELSE InsertByStart(SortByStart(SubSeq(fd, 1, Len(fd) - 1)), fd[Len(fd)])

-----------------------------------------------------------------------------
(* extract_typedef: the struct members.                                    *)

Raised(lines) == [ok |-> FALSE, lines |-> lines]
Returned(lines) == [ok |-> TRUE, lines |-> lines]

\* The loop over the sorted dictionary and the trailing gap: an unnamed
\* member before every field that does not start right after the previous
\* one, the field itself, and an unnamed member up to total_bits.  The
\* scalar branch (padded) takes len(field_name) and raises when the name
\* is None; the array branch writes it as 'None'.  A width that str()
\* refuses raises as well.
RECURSIVE StructMembers(_, _, _, _, _)
StructMembers(fd, last_end_bit, total_bits, register_type, padded) ==
    IF fd = <<>>
    THEN LET Trailing(width) ==
                 IF StrRaises(width) THEN Raised(<<>>)
                 ELSE Returned(<<MemberLine(register_type, <<>>, width, 0)>>)
         IN  IF BigLess(last_end_bit, BigAdd(total_bits, MinusOne))
             THEN Trailing(BigAdd(BigSub(total_bits, last_end_bit), MinusOne))
             ELSE Returned(<<>>)
    ELSE
        LET f == Head(fd)
            pad == IF padded /\ 5 - Len(f.name) > 0 THEN 5 - Len(f.name) ELSE 0
            Member(gap, width, rest) ==
                IF padded /\ f.name = <<>> THEN Raised(gap)
                ELSE IF StrRaises(width) THEN Raised(gap)
                ELSE [ok |-> rest.ok,
                      lines |-> gap
                                \o <<MemberLine(register_type, Format(f.name),
                                                width, pad)>>
                                \o rest.lines]
            Gap(width) ==
                IF StrRaises(width) THEN Raised(<<>>)
                ELSE Member(<<MemberLine(register_type, <<>>, width, 0)>>,
                            BigAdd(BigSub(f.end, f.start), One),
                            StructMembers(Tail(fd), f.end, total_bits,
                                          register_type, padded))
        IN  IF ~BigEq(BigAdd(last_end_bit, One), f.start)
            THEN Gap(BigAdd(BigSub(f.start, last_end_bit), MinusOne))
            ELSE Member(<<>>, BigAdd(BigSub(f.end, f.start), One),
                        StructMembers(Tail(fd), f.end, total_bits,
                                      register_type, padded))

\* A variant of lines 88-99 that starts the scan at bit 0 instead of -1.
BuildStructArrayFromZero(field_dict, register_size, register_type) ==
    StructMembers(SortByStart(field_dict), Zero, register_size,
                  register_type, FALSE)

\* Lines 88-99: the array branch writes '{name}: {width}'.
BuildStructArray(field_dict, register_size, register_type) ==
    StructMembers(SortByStart(field_dict), MinusOne, register_size,
                  register_type, FALSE)

\* A variant of lines 129-140 without the sorted() of line 130.
BuildStructScalarUnsorted(field_dict, register_size, register_type) ==
    StructMembers(field_dict, MinusOne, register_size, register_type, TRUE)

\* Lines 129-140: the scalar branch pads the name to five columns.
BuildStructScalar(field_dict, register_size, register_type) ==
    StructMembers(SortByStart(field_dict), MinusOne, register_size,
                  register_type, TRUE)

-----------------------------------------------------------------------------
(* extract_typedef                                                         *)

\* Line 70: the array branch parses <size> in base 10 only.
ArraySize(register) ==
    IF register.size = {} THEN ValueError ELSE IntDec(Text(register.size))

\* Lines 108-111: the scalar branch falls back to base 16.  The size is
\* kept in radix 10, like the bit positions it is compared with.
ScalarSize(register) ==
    IF register.size = {} THEN ValueError
    ELSE LET Decimal(size) ==
                 IF size.ok THEN Parsed(ToRadix(size.val, 10)) ELSE size
             Fallback(size) ==
                 IF size.ok THEN size
                 ELSE Decimal(IntHex(Text(register.size)))
         IN  Fallback(IntDec(Text(register.size)))

\* A variant of lines 73-74 that adds the stride of line 67 to the address.
ArrayAddressStrided(register, base) ==
    IF register.addressOffset = {} THEN ValueError
    ELSE LET Sum(register_address_offset, base_address) ==
                 IF ~register_address_offset.ok \/ ~base_address.ok
                 THEN ValueError
                 ELSE Parsed(BigAdd(BigAdd(base_address.val,
                                           register_address_offset.val),
                                    IntAuto(Text(register.dimIncrement)).val))
         IN  Sum(IntHex(Text(register.addressOffset)), IntHex(base))

\* Lines 73-74: int(base, 16) + int(addressOffset, 16).
ArrayAddress(register, base) ==
    IF register.addressOffset = {} THEN ValueError
    ELSE LET Sum(register_address_offset, base_address) ==
                 IF ~register_address_offset.ok \/ ~base_address.ok
                 THEN ValueError
                 ELSE Parsed(BigAdd(base_address.val,
                                    register_address_offset.val))
         IN  Sum(IntHex(Text(register.addressOffset)), IntHex(base))

\* Lines 114-116.
ScalarAddress(register, base) ==
    LET Sum(base_address, register_address_offset) ==
            IF ~register_address_offset.ok THEN ValueError
            ELSE Parsed(BigAdd(base_address.val,
                               register_address_offset.val))
        Based(base_address) ==
            IF ~base_address.ok \/ register.addressOffset = {}
            THEN ValueError
            ELSE Sum(base_address, IntHex(Text(register.addressOffset)))
    IN  Based(IntHex(base))

Bits == Codes("bits")
BitsT == Codes("bits_t")

\* Lines 103-104: the macros of an array are pointers.
ArrayMacros(sym, register_type, address) ==
    LET register_address == Hex(address) IN
    << MacroLine(sym, register_type, FALSE, register_address),
       MacroLine(sym \o Bits, sym \o BitsT, FALSE, register_address) >>

\* Lines 143-144: the macros of a scalar are dereferenced pointers.
ScalarMacros(sym, register_type, address) ==
    LET register_address == Hex(address) IN
    << MacroLine(sym, register_type, TRUE, register_address),
       MacroLine(sym \o Bits, sym \o BitsT, TRUE, register_address) >>

\* '{peripheral_name}_{register_name}'
Symbol(pname, register_name) ==
    Format(pname) \o <<Underscore>> \o Format(register_name)

\* Lines 64-104.
ArrayTypedef(register, register_name, pname, pbase) ==
    LET Typedef(sym, size, register_address, read) ==
            LET register_size == size.val
                register_type == get_register_type(register_size)
                Struct(members) ==
                    IF ~members.ok
                    THEN Raised(<<OpenLine>> \o members.lines)
                    ELSE Returned(
                            <<OpenLine>>
                            \o members.lines
                            \o <<CloseLine(sym \o BitsT)>>
                            \o ArrayMacros(sym, register_type,
                                           register_address.val))
            IN  IF ~IntDec(Text(register.dim)).ok THEN Raised(<<>>)
                ELSE IF register.dimIncrement = {} THEN Raised(<<>>)
                ELSE IF ~IntAuto(Text(register.dimIncrement)).ok
                THEN Raised(<<>>)
                ELSE IF register.dimIndex = {} THEN Raised(<<>>)
                ELSE IF ~size.ok THEN Raised(<<>>)
                ELSE IF StrRaises(register_size) THEN Raised(<<>>)
                ELSE IF ~register_address.ok THEN Raised(<<>>)
                ELSE IF ~read.ok THEN Raised(<<OpenLine>>)
                ELSE Struct(BuildStructArray(read.dict, register_size,
                                             register_type))
    IN  Typedef(Symbol(pname, register_name), ArraySize(register),
                ArrayAddress(register, pbase),
                ReadFields(register.fields, <<>>))

\* Lines 106-144.
ScalarTypedef(register, register_name, pname, pbase) ==
    LET Typedef(sym, size, register_address, read) ==
            LET register_size == size.val
                register_type == get_register_type(register_size)
                Struct(members) ==
                    IF ~members.ok
                    THEN Raised(<<OpenLine>> \o members.lines)
                    ELSE Returned(
                            <<OpenLine>>
                            \o members.lines
                            \o <<CloseLine(sym \o BitsT)>>
                            \o ScalarMacros(sym, register_type,
                                            register_address.val))
            IN  IF ~size.ok THEN Raised(<<>>)
                ELSE IF StrRaises(register_size) THEN Raised(<<>>)
                ELSE IF ~register_address.ok THEN Raised(<<>>)
                ELSE IF ~read.ok THEN Raised(<<OpenLine>>)
                ELSE Struct(BuildStructScalar(read.dict, register_size,
                                              register_type))
    IN  Typedef(Symbol(pname, register_name), ScalarSize(register),
                ScalarAddress(register, pbase),
                ReadFields(register.fields, <<>>))

\* extract_typedef(register, peripheral_name, peripheral_base_address): the
\* lines of the returned text, or the exception with typedef_str_list as it
\* stood when the exception was raised.
extract_typedef(register, pname, pbase) ==
    IF register.name = {} THEN Raised(<<>>)
    ELSE IF register.dim # {}
         THEN ArrayTypedef(register, Text(register.name), pname, pbase)
         ELSE ScalarTypedef(register, Text(register.name), pname, pbase)

-----------------------------------------------------------------------------
(* The documents the program is run on.                                    *)

Field(n, o, w) == [name |-> {n}, bitOffset |-> {o}, bitWidth |-> {w}]

Register(n, size, offset, shape, fields) ==
    [name |-> {n}, size |-> size, addressOffset |-> {offset},
     dim |-> shape.dim, dimIncrement |-> shape.dimIncrement,
     dimIndex |-> shape.dimIndex, fields |-> fields]

Peripheral(n, base, derived, registers) ==
    [name |-> n, baseAddress |-> base, derivedFrom |-> derived,
     registers |-> registers]

ScalarShape == [dim |-> {}, dimIncrement |-> {}, dimIndex |-> {}]
ArrayShape(dim, inc, index) ==
    [dim |-> {dim}, dimIncrement |-> inc, dimIndex |-> {index}]

\* One register, drawn from every combination of the texts below.
RESERVED == Codes("RESERVED")
PRI == Codes("PRI")
FieldNames == {RESERVED, PRI}
FieldRanges ==
    {[offset |-> Codes("0"), width |-> Codes("2")],
     [offset |-> Codes("0"), width |-> Codes("6")],
     [offset |-> Codes("2"), width |-> Codes("4")],
     [offset |-> Codes("2"), width |-> Codes("6")],
     [offset |-> Codes("6"), width |-> Codes("2")],
     [offset |-> Codes("6"), width |-> Codes("6")]}
Fields ==
    {Field(n, r.offset, r.width) : n \in FieldNames, r \in FieldRanges}
    \cup {Field(PRI, Codes("0x2"), Codes("2")),
          Field(PRI, Codes("4294967296"), Codes("2")),
          Field(<<>>, Codes("0"), Codes("2")),
          [name |-> {PRI}, bitOffset |-> {Codes("0")}, bitWidth |-> {}]}
\* Size texts: decimal, hexadecimal, 16 in fullwidth digits (which int()
\* reads as decimal digits), zero, a negative number and 2^32.
SizeTexts ==
    {{Codes("8")}, {<<65297, 65302>>}, {Codes("12")}, {Codes("0x8")},
     {Codes("0")}, {Codes("-8")}, {Codes("4294967296")}}
Shapes ==
    {ScalarShape,
     ArrayShape(Codes("32"), {Codes("0x4")}, Codes("0-31")),
     ArrayShape(Codes("2"), {}, Codes("0,1"))}
Base0 == Codes("0xE000E100")
Base1 == Codes("40001000")
Places == {[base |-> Base0, offset |-> Codes("0x300")],
           [base |-> Base1, offset |-> Codes("1C")]}
RegisterDoc(pl, size, shape, fields) ==
    <<Peripheral({Codes("NVIC")}, {pl.base}, {},
                 <<Register(Codes("IP"), size, pl.offset, shape, fields)>>)>>

\* Several peripherals, with registers from a catalogue.
CTRL == Register(Codes("CTRL"), {Codes("32")}, Codes("0x10"), ScalarShape,
                 <<Field(Codes("MODE"), Codes("4"), Codes("2")),
                   Field(Codes("EN"), Codes("0"), Codes("1"))>>)
IP == Register(Codes("IP"), {Codes("8")}, Codes("0x300"),
               ArrayShape(Codes("32"), {Codes("0x1")}, Codes("0-31")),
               <<Field(RESERVED, Codes("0"), Codes("6")),
                 Field(PRI, Codes("6"), Codes("2"))>>)
BADF == Register(Codes("BADF"), {Codes("16")}, Codes("0x20"), ScalarShape,
                 <<Field(Codes("LO"), Codes("0"), Codes("4")),
                   Field(Codes("HI"), Codes("0x8"), Codes("4"))>>)
BADS == Register(Codes("BADS"), {}, Codes("0x24"),
                 ArrayShape(Codes("2"), {Codes("4")}, Codes("0,1")), <<>>)
RegisterLists ==
    {<<>>, <<CTRL>>, <<IP, CTRL>>, <<CTRL, BADF, IP>>, <<BADS>>}
\* Plain names; the names and derivedFrom texts with an apostrophe are
\* those of QuotedPeripherals below.
PA == Codes("PA")
PB == Codes("PB")
PeripheralNames == {PA, PB}
BaseAt(i) == Codes("0x4000") \o <<HexDigit(i)>> \o Codes("000")
\* Peripherals that lack <name> or <baseAddress>, whose <name> is without
\* content, or whose derivedFrom attribute is the empty string.
IncompletePeripherals ==
    {[name |-> {}, based |-> TRUE, derivedFrom |-> {}, registers |-> <<CTRL>>],
     [name |-> {PB}, based |-> FALSE, derivedFrom |-> {},
      registers |-> <<CTRL>>],
     [name |-> {<<>>}, based |-> TRUE, derivedFrom |-> {},
      registers |-> <<CTRL>>],
     [name |-> {PB}, based |-> TRUE, derivedFrom |-> {<<>>},
      registers |-> <<CTRL>>]}
\* Names and derivedFrom texts with an apostrophe: the text P'A, a text
\* that completes the path of line 19 to one that selects the peripheral
\* named PA, and a text that completes it to one that selects the parent
\* of that peripheral.
Quoted == Codes("P'A")
Injected == Codes("PA'][name='PA")
InjectedParent == Codes("PA']/..[.!='")
QuotedPeripherals ==
    {[name |-> {PB}, based |-> TRUE, derivedFrom |-> {Quoted},
      registers |-> <<CTRL>>],
     [name |-> {Quoted}, based |-> TRUE, derivedFrom |-> {},
      registers |-> <<IP, CTRL>>],
     [name |-> {PB}, based |-> TRUE, derivedFrom |-> {Injected},
      registers |-> <<BADF>>],
     [name |-> {Injected}, based |-> TRUE, derivedFrom |-> {},
      registers |-> <<CTRL>>],
     [name |-> {PA}, based |-> TRUE, derivedFrom |-> {Injected},
      registers |-> <<IP, CTRL>>],
     [name |-> {PB}, based |-> TRUE, derivedFrom |-> {InjectedParent},
      registers |-> <<>>]}
PeripheralChoices ==
    [name : {{n} : n \in PeripheralNames},
     based : {TRUE},
     derivedFrom : {{}} \cup {{m} : m \in PeripheralNames},
     registers : RegisterLists]
    \cup IncompletePeripherals \cup QuotedPeripherals
Document(d) ==
    [i \in DOMAIN d |->
        Peripheral(d[i].name, IF d[i].based THEN {BaseAt(i)} ELSE {},
                   d[i].derivedFrom, d[i].registers)]

-----------------------------------------------------------------------------
(* The element tree of the document: <device>, <peripherals>, and below    *)
(* every <peripheral> its <name>, <baseAddress> and <registers>; below a   *)
(* <register> its own elements and <fields>.  An element is addressed by   *)
(* its node: the positions of the children on the way from the root.       *)

Element(tag, attrib, text, children) ==
    [tag |-> tag, attrib |-> attrib, text |-> text, children |-> children]

TagDevice == Codes("device")
TagPeripherals == Codes("peripherals")
TagPeripheral == Codes("peripheral")
TagName == Codes("name")
TagBaseAddress == Codes("baseAddress")
TagRegisters == Codes("registers")
TagRegister == Codes("register")
TagAddressOffset == Codes("addressOffset")
TagSize == Codes("size")
TagDim == Codes("dim")
TagDimIncrement == Codes("dimIncrement")
TagDimIndex == Codes("dimIndex")
TagFields == Codes("fields")
TagField == Codes("field")
TagBitOffset == Codes("bitOffset")
TagBitWidth == Codes("bitWidth")
AttribDerivedFrom == Codes("derivedFrom")

\* An optional element that holds text only.
Leaf(tag, element) ==
    IF element = {} THEN <<>>
    ELSE <<Element(tag, {}, Text(element), <<>>)>>

FieldElement(f) ==
    Element(TagField, {}, <<>>,
            Leaf(TagName, f.name) \o Leaf(TagBitOffset, f.bitOffset)
            \o Leaf(TagBitWidth, f.bitWidth))

RegisterElement(r) ==
    Element(TagRegister, {}, <<>>,
            Leaf(TagName, r.name) \o Leaf(TagAddressOffset, r.addressOffset)
            \o Leaf(TagSize, r.size) \o Leaf(TagDim, r.dim)
            \o Leaf(TagDimIncrement, r.dimIncrement)
            \o Leaf(TagDimIndex, r.dimIndex)
            \o <<Element(TagFields, {}, <<>>,
                         [k \in DOMAIN r.fields |->
                            FieldElement(r.fields[k])])>>)

PeripheralElement(p) ==
    Element(TagPeripheral,
            {[key |-> AttribDerivedFrom, value |-> v] : v \in p.derivedFrom},
            <<>>,
            Leaf(TagName, p.name) \o Leaf(TagBaseAddress, p.baseAddress)
            \o <<Element(TagRegisters, {}, <<>>,
                         [k \in DOMAIN p.registers |->
                            RegisterElement(p.registers[k])])>>)

\* The tree of a document, and ET.parse('CM0plus.svd').getroot().
Tree(d) ==
    Element(TagDevice, {}, <<>>,
            <<Element(TagPeripherals, {}, <<>>,
                      [i \in DOMAIN d |-> PeripheralElement(d[i])])>>)
Root == Tree(doc)

\* The node of the i-th <peripheral>, and the register a <register> node
\* stands for.
PeripheralNode(i) == <<1, i>>
RegisterAt(node) == doc[node[2]].registers[node[4]]

RECURSIVE ElementAt(_, _)
ElementAt(e, node) ==
    IF node = <<>> THEN e
    ELSE ElementAt(e.children[Head(node)], Tail(node))

Children(root, node) ==
    [k \in DOMAIN ElementAt(root, node).children |-> Append(node, k)]

\* Element.iter(): the element and everything below it, in document order.
RECURSIVE Iter(_, _)
Iter(e, node) ==
    <<node>>
    \o Flatten([k \in DOMAIN e.children |->
                    Iter(e.children[k], Append(node, k))])

\* "".join(element.itertext())
RECURSIVE IterText(_)
IterText(e) ==
    e.text \o Flatten([k \in DOMAIN e.children |-> IterText(e.children[k])])

\* element.get(key): {} for None.
Get(e, key) == {a.value : a \in {b \in e.attrib : b.key = key}}

-----------------------------------------------------------------------------
(* Element.find(path): xml.etree.ElementPath.  A path is cut into tokens,  *)
(* the tokens are turned into selectors, and the selectors are applied in  *)
(* turn to the list that starts as [root].                                 *)

Slash == Ord("/")
Star == Ord("*")
Dot == Ord(".")
Colon == Ord(":")
LeftBracket == Ord("[")
RightBracket == Ord("]")
LeftBrace == Ord("{")
RightBrace == Ord("}")
Apostrophe == Ord("'")
DoubleQuote == Ord("\"")
Quotes == {Apostrophe, DoubleQuote}
OneCharOperators ==
    {Slash, Dot, Star, Colon, LeftBracket, RightBracket, Ord("("), Ord(")"),
     Ord("@"), Ord("=")}
TwoCharOperators ==
    {Codes("::"), Codes("//"), Codes(".."), Codes("()"), Codes("!=")}
NotInTag ==
    {Slash, LeftBracket, RightBracket, Ord("("), Ord(")"), Ord("@"),
     Ord("!"), Ord("=")}

\* \s of a regular expression: str.isspace.
ReSpaces == 9..13 \cup 28..32 \cup UnicodeSpaces

\* [^/\[\]\(\)@!=\s]
IsTagChar(c) == c \notin NotInTag /\ c \notin ReSpaces

\* A token is the pair (operator, tag) that the tokenizer yields: one of
\* the two is empty, and both are for a run of whitespace.
Token(operator, tag) == [operator |-> operator, tag |-> tag]

\* '[^']*' | "[^"]*": the closing quote of a string that opens at i.
QuotedEnd(s, i) ==
    LET closing == {j \in (i + 1)..Len(s) : s[j] = s[i]}
    IN  IF s[i] \in Quotes /\ closing # {} THEN Min(closing) ELSE 0

\* The first alternative of the tokenizer: a quoted string or an operator.
OperatorEnd(s, i) ==
    IF QuotedEnd(s, i) > 0 THEN QuotedEnd(s, i)
    ELSE IF i < Len(s) /\ SubSeq(s, i, i + 1) \in TwoCharOperators
    THEN i + 1
    ELSE IF s[i] \in OneCharOperators THEN i
    ELSE 0

\* The end of the run of tag characters that starts at i.
TagRunEnd(s, i) ==
    Min({j \in i..Len(s) : j = Len(s) \/ ~IsTagChar(s[j + 1])})

\* \{[^}]+\}: the brace that closes a namespace opening at i.
NamespaceEnd(s, i) ==
    LET closing == {j \in (i + 1)..Len(s) : s[j] = RightBrace}
    IN  IF s[i] = LeftBrace /\ closing # {} /\ Min(closing) >= i + 2
        THEN Min(closing) ELSE 0

\* The second alternative: an optional namespace and tag characters.
TagEnd(s, i) ==
    LET n == NamespaceEnd(s, i)
    IN  IF n > 0 /\ n < Len(s) /\ IsTagChar(s[n + 1]) THEN TagRunEnd(s, n + 1)
        ELSE IF IsTagChar(s[i]) THEN TagRunEnd(s, i)
        ELSE 0

\* The third alternative: a run of whitespace.
SpaceRunEnd(s, i) ==
    IF s[i] \in ReSpaces
    THEN Min({j \in i..Len(s) : j = Len(s) \/ s[j + 1] \notin ReSpaces})
    ELSE 0

\* xpath_tokenizer_re.findall(pattern), from position i: a character that
\* starts no token is skipped.
RECURSIVE xpath_tokenizer(_, _)
xpath_tokenizer(pattern, i) ==
    IF i > Len(pattern) THEN <<>>
    ELSE
        LET Match(o, t, w) ==
                (IF o > 0 THEN <<Token(SubSeq(pattern, i, o), <<>>)>>
                 ELSE IF t > 0 THEN <<Token(<<>>, SubSeq(pattern, i, t))>>
                 ELSE IF w > 0 THEN <<Token(<<>>, <<>>)>>
                 ELSE <<>>)
                \o xpath_tokenizer(pattern,
                                   (IF o + t + w > 0 THEN o + t + w ELSE i)
                                   + 1)
            Spaces(o, t) ==
                Match(o, t,
                      IF o > 0 \/ t > 0 THEN 0 ELSE SpaceRunEnd(pattern, i))
            Tag(o) == Spaces(o, IF o > 0 THEN 0 ELSE TagEnd(pattern, i))
        IN  Tag(OperatorEnd(pattern, i))

\* xpath_tokenizer raises for a tag with a prefix: there is no prefix map.
HasPrefixedTag(tokens) ==
    \E k \in DOMAIN tokens :
        /\ tokens[k].tag # <<>>
        /\ tokens[k].tag[1] # LeftBrace
        /\ \E i \in DOMAIN tokens[k].tag : tokens[k].tag[i] = Colon

AnyNamespaceAnyTag == Codes("{*}*")
NoNamespaceAnyTag == Codes("{}*")
AnyNamespace == Codes("{*}")
AnyTag == Codes("}*")
NoNamespace == Codes("{}")

\* _is_wildcard_tag
IsWildcardTag(tag) == StartsWith(tag, AnyNamespace) \/ EndsWith(tag, AnyTag)

\* _prepare_tag: the element tags that a wildcard tag selects.
WildcardMatches(el_tag, tag) ==
    IF tag = AnyNamespaceAnyTag THEN TRUE
    ELSE IF tag = NoNamespaceAnyTag THEN el_tag[1] # LeftBrace
    ELSE IF StartsWith(tag, AnyNamespace)
    THEN \/ el_tag = SubSeq(tag, 4, Len(tag))
         \/ EndsWith(el_tag, SubSeq(tag, 3, Len(tag)))
    ELSE StartsWith(el_tag, SubSeq(tag, 1, Len(tag) - 1))

\* '{}tag' == 'tag'
PlainTag(tag) ==
    IF StartsWith(tag, NoNamespace) THEN SubSeq(tag, 3, Len(tag)) ELSE tag

\* prepare_child: the element tags that a tag of a path selects.
TagMatches(el_tag, tag) ==
    IF IsWildcardTag(tag) THEN WildcardMatches(el_tag, tag)
    ELSE el_tag = PlainTag(tag)

\* The children of a node that a tag selects: element.findall(tag).
ChildrenTagged(root, node, tag) ==
    LET e == ElementAt(root, node)
    IN  SelectSeq(Children(root, node),
                  LAMBDA c : TagMatches(e.children[c[Len(c)]].tag, tag))

\* prepare_child, prepare_star
select_child(root, result, tag) ==
    Flatten([r \in DOMAIN result |-> ChildrenTagged(root, result[r], tag)])
select_star(root, result) ==
    Flatten([r \in DOMAIN result |-> Children(root, result[r])])

\* element.iter(tag): the element and everything below it that has the
\* tag, in document order; '*' is every tag.
RECURSIVE IterTagged(_, _, _)
IterTagged(e, node, tag) ==
    (IF tag = <<Star>> \/ e.tag = tag THEN <<node>> ELSE <<>>)
    \o Flatten([k \in DOMAIN e.children |->
                    IterTagged(e.children[k], Append(node, k), tag)])

\* prepare_descendant: everything below an element that the tag selects
\* ('if e is not elem').
Descendants(root, node, tag) ==
    LET below == IF IsWildcardTag(tag)
                 THEN SelectSeq(Iter(ElementAt(root, node), node),
                                LAMBDA d : WildcardMatches(
                                               ElementAt(root, d).tag, tag))
                 ELSE IterTagged(ElementAt(root, node), node, PlainTag(tag))
    IN  IF below # <<>> /\ below[1] = node THEN Tail(below) ELSE below
select_descendant(root, result, tag) ==
    Flatten([r \in DOMAIN result |-> Descendants(root, result[r], tag)])

\* prepare_parent: every parent once; the root has none.
select_parent(result) ==
    LET parent(r) == SubSeq(result[r], 1, Len(result[r]) - 1)
        first == {r \in DOMAIN result :
                    /\ result[r] # <<>>
                    /\ \A q \in 1..(r - 1) :
                        result[q] = <<>> \/ parent(q) # parent(r)}
    IN  [k \in 1..Cardinality(first) |->
            parent(CHOOSE r \in first :
                       Cardinality({q \in first : q <= r}) = k)]

\* prepare_predicate: inside a predicate a quoted string counts as "'" and
\* a tag as "-" in the signature, and whitespace is dropped.
IsQuoted(token) == token.operator # <<>> /\ token.operator[1] \in Quotes
SignatureOf(token) ==
    IF token.operator = <<>> THEN <<MinusSign>>
    ELSE IF IsQuoted(token) THEN <<Apostrophe>>
    ELSE token.operator
ValueOf(token) ==
    IF IsQuoted(token)
    THEN SubSeq(token.operator, 2, Len(token.operator) - 1)
    ELSE token.tag
IsBlank(token) == token.operator = <<>> /\ token.tag = <<>>
NotBlank(token) == ~IsBlank(token)

HasAttribute == Codes("@-")
AttributeIs == Codes("@-='")
AttributeIsNot == Codes("@-!='")
HasChild == Codes("-")
SelfIs == Codes(".='")
SelfIsNot == Codes(".!='")
ChildIs == Codes("-='")
ChildIsNot == Codes("-!='")
LastOne == Codes("-()")
FromLast == Codes("-()-")
Last == Codes("last")
NotEqual == Codes("!=")

\* re.match(r"\-?\d+$", text); a tag holds no newline.
IsNumber(text) ==
    LET u == IF text # <<>> /\ text[1] = MinusSign THEN Tail(text) ELSE text
    IN  u # <<>> /\ \A i \in DOMAIN u : IsDecimal(u[i])

\* The index of [index], [last()] and [last()-index], or the exception.
PredicateIndex(signature, predicate) ==
    LET Indexed(ok, index) ==
            IF ok THEN [ok |-> TRUE, index |-> index]
            ELSE [ok |-> FALSE, index |-> Zero]
        FromFirst(n) ==
            Indexed(n.ok /\ ~BigLess(BigAdd(n.val, MinusOne), Zero),
                    BigAdd(n.val, MinusOne))
        BeforeLast(n) ==
            Indexed(n.ok /\ BigLess(BigAdd(n.val, MinusOne), MinusOne),
                    BigAdd(n.val, MinusOne))
    IN  IF signature = HasChild THEN FromFirst(IntDec(predicate[1]))
        ELSE IF predicate[1] # Last THEN Indexed(FALSE, Zero)
        ELSE IF signature = LastOne THEN Indexed(TRUE, MinusOne)
        ELSE BeforeLast(IntDec(predicate[3]))

\* The kind of a predicate, "invalid" for one that raises SyntaxError (or
\* the ValueError of int).
PredicateKind(signature, predicate) ==
    IF signature = HasAttribute THEN "attribute"
    ELSE IF signature \in {AttributeIs, AttributeIsNot} THEN "attribute value"
    ELSE IF signature = HasChild /\ ~IsNumber(predicate[1]) THEN "child"
    ELSE IF \/ signature \in {SelfIs, SelfIsNot}
            \/ signature \in {ChildIs, ChildIsNot} /\ ~IsNumber(predicate[1])
    THEN "text"
    ELSE IF /\ signature \in {HasChild, LastOne, FromLast}
            /\ PredicateIndex(signature, predicate).ok
    THEN "index"
    ELSE "invalid"

\* elems[index] is elem, for the children of the parent with the tag of
\* the element; the root has no parent.
AtIndex(root, node, index) ==
    /\ node # <<>>
    /\ LET elems == ChildrenTagged(root, SubSeq(node, 1, Len(node) - 1),
                                   ElementAt(root, node).tag)
           at == IF index.neg
                 THEN BigAdd(BigAdd(PyInt(Len(elems)), index), One)
                 ELSE BigAdd(index, One)
       IN  \E k \in DOMAIN elems : PyInt(k) = at /\ elems[k] = node

\* Whether the select function of a predicate yields the element.
PredicateHolds(root, node, kind, signature, predicate) ==
    LET elem == ElementAt(root, node)
        value == predicate[Len(predicate)]
        negated == \E i \in 1..(Len(signature) - 1) :
                        SubSeq(signature, i, i + 1) = NotEqual
    IN  CASE kind = "attribute" -> Get(elem, predicate[2]) # {}
          [] kind = "attribute value" ->
                /\ Get(elem, predicate[2]) # {}
                /\ (Get(elem, predicate[2]) = {value}) = ~negated
          [] kind = "child" ->
                ChildrenTagged(root, node, predicate[1]) # <<>>
          [] kind = "text" ->
                IF predicate[1] = <<>>
                THEN (IterText(elem) = value) = ~negated
                ELSE LET es == ChildrenTagged(root, node, predicate[1])
                     IN  \E k \in DOMAIN es :
                            (IterText(ElementAt(root, es[k])) = value)
                                = ~negated
          [] kind = "index" ->
                AtIndex(root, node,
                        PredicateIndex(signature, predicate).index)

Selected(taken, result) ==
    [raised |-> FALSE, taken |-> taken, result |-> result]
Failed == [raised |-> TRUE, taken |-> 0, result |-> <<>>]

\* prepare_descendant: the tag is the next token.
prepare_descendant(root, tokens, k, result) ==
    IF k + 1 > Len(tokens) THEN Failed
    ELSE IF tokens[k + 1].operator = <<Star>>
    THEN Selected(2, select_descendant(root, result, <<Star>>))
    ELSE IF tokens[k + 1].operator = <<>>
    THEN Selected(2, select_descendant(root, result, tokens[k + 1].tag))
    ELSE Failed

\* prepare_predicate: the tokens up to the next ']'.
prepare_predicate(root, tokens, k, result) ==
    LET closing == {j \in (k + 1)..Len(tokens) :
                        tokens[j].operator = <<RightBracket>>}
        Select(signature, predicate, kind) ==
            IF kind = "invalid" THEN Failed
            ELSE Selected(Min(closing) - k + 1,
                          SelectSeq(result,
                                    LAMBDA n : PredicateHolds(root, n, kind,
                                                              signature,
                                                              predicate)))
        Prepare(signature, predicate) ==
            Select(signature, predicate, PredicateKind(signature, predicate))
        Inside(inside) ==
            IF inside = <<>> THEN Failed
            ELSE Prepare(Flatten([j \in DOMAIN inside |->
                                     SignatureOf(inside[j])]),
                         [j \in DOMAIN inside |-> ValueOf(inside[j])])
    IN  IF closing = {} THEN Failed
        ELSE Inside(SelectSeq(SubSeq(tokens, k + 1, Min(closing) - 1),
                              NotBlank))

\* iterfind: the selector that starts at token k is applied to the result
\* of the selectors before it; a '/' after a selector is skipped.  Every
\* exception of the tokenizer, of the selectors and of their application is
\* the same failure.
RECURSIVE iterfind(_, _, _, _)
iterfind(root, tokens, k, result) ==
    IF k > Len(tokens) THEN [raised |-> FALSE, result |-> result]
    ELSE
        LET operator == tokens[k].operator
            Continue(step, next) ==
                IF step.raised THEN [raised |-> TRUE, result |-> <<>>]
                ELSE iterfind(root, tokens,
                              IF /\ next <= Len(tokens)
                                 /\ tokens[next].operator = <<Slash>>
                              THEN next + 1 ELSE next,
                              step.result)
            Apply(step) == Continue(step, k + step.taken)
        IN  Apply(IF operator = <<>>
                  THEN Selected(1, select_child(root, result, tokens[k].tag))
                  ELSE IF operator = <<Star>>
                  THEN Selected(1, select_star(root, result))
                  ELSE IF operator = <<Dot>> THEN Selected(1, result)
                  ELSE IF operator = <<Dot, Dot>>
                  THEN Selected(1, select_parent(result))
                  ELSE IF operator = <<Slash, Slash>>
                  THEN prepare_descendant(root, tokens, k, result)
                  ELSE IF operator = <<LeftBracket>>
                  THEN prepare_predicate(root, tokens, k, result)
                  ELSE Failed)

\* ElementPath.find(root, path): the exception, or the first element
\* selected ({} for None).
ElementPathFind(root, path) ==
    LET pattern == IF path # <<>> /\ path[Len(path)] = Slash
                   THEN Append(path, Star) ELSE path
        First(tokens, found) ==
            IF \/ pattern # <<>> /\ pattern[1] = Slash
               \/ tokens = <<>>
               \/ HasPrefixedTag(tokens)
               \/ found.raised
            THEN [raised |-> TRUE, found |-> {}]
            ELSE [raised |-> FALSE,
                  found |-> IF found.result = <<>> THEN {}
                            ELSE {found.result[1]}]
        Find(tokens) == First(tokens, iterfind(root, tokens, 1, <<<<>>>>))
    IN  Find(xpath_tokenizer(pattern, 1))

\* checkpath of _elementtree.c: a path is a plain tag unless it starts as
\* a wildcard or holds one of / * [ @ . outside braces.
PathChars == {Slash, Star, LeftBracket, Ord("@"), Dot}
checkpath(tag) ==
    \/ /\ Len(tag) >= 3
       /\ tag[1] = LeftBrace
       /\ tag[2] = RightBrace \/ (tag[2] = Star /\ tag[3] = RightBrace)
    \/ \E i \in DOMAIN tag :
        /\ tag[i] \in PathChars
        /\ LET braces == {j \in 1..(i - 1) : tag[j] \in {LeftBrace, RightBrace}}
           IN  braces = {} \/ tag[Max(braces)] = RightBrace

\* root.find(path): a plain tag selects the first child with that tag,
\* every other path goes to ElementPath.
find(root, path) ==
    IF checkpath(path) THEN ElementPathFind(root, path)
    ELSE LET found == SelectSeq(Children(root, <<>>),
                                LAMBDA c : ElementAt(root, c).tag = path)
         IN  [raised |-> FALSE,
              found |-> IF found = <<>> THEN {} ELSE {found[1]}]

-----------------------------------------------------------------------------
(* list_registers                                                          *)

\* Line 17, 'if derived_from:': the attribute is present and not empty.
Derived(p) == p.derivedFrom # {} /\ Text(p.derivedFrom) # <<>>

\* Line 19: f".//peripheral[name='{derived_from}']"
PathBeforeName == Codes(".//peripheral[name='")
PathAfterName == Codes("']")
PeripheralPath(derived_from) ==
    PathBeforeName \o derived_from \o PathAfterName

\* root.find(path) of line 19.
FindPeripheral(derived_from) == find(Root, PeripheralPath(derived_from))

\* Lines 16-20 for the i-th <peripheral>: the exception of line 19, or the
\* element whose registers are iterated ({} for None).
RegisterSource(i) ==
    IF Derived(doc[i]) THEN FindPeripheral(Text(doc[i].derivedFrom))
    ELSE [raised |-> FALSE, found |-> {PeripheralNode(i)}]

\* Line 23, peripheral.findall(".//register"): the <register> elements
\* below the element, in document order.
Registers(node) ==
    LET found == select_descendant(Root, <<node>>, TagRegister)
    IN  [k \in DOMAIN found |-> RegisterAt(found[k])]

\* Lines 12-18: the comment lines of a peripheral that has a <name>.
\* len(peripheral_name) of line 13 raises when the name is None.
Comment == Codes("// ")
IsDerivedFrom == Codes(" is derived from ")
Banner(p) ==
    <<CommentLine("banner", Comment \o Format(Text(p.name)))>>
    \o IF Text(p.name) = <<>> THEN <<>>
       ELSE <<CommentLine("rule",
                          Comment \o Repeat(Ord("="), Len(Text(p.name))))>>
            \o IF Derived(p)
               THEN <<CommentLine("derived",
                                  Comment \o Text(p.name) \o IsDerivedFrom
                                  \o Text(p.derivedFrom))>>
               ELSE <<>>

\* A variant of lines 24-27 that writes the lines as they are built.
PrintedStreaming(result) ==
    IF result.ok THEN result.lines \o <<BlankLine>> ELSE result.lines

\* Lines 24-27: print(extract_typedef(...)) and print(''); an exception
\* leaves extract_typedef before anything is printed.
Printed(result) ==
    IF result.ok THEN result.lines \o <<BlankLine>> ELSE <<>>

Init ==
    /\ \E n \in 1..MaxPeripherals :
        \E d \in [1..n -> PeripheralChoices] : doc = Document(d)
    /\ pi = 1
    /\ ri = 0
    /\ pc = "periph"
    /\ peripheral = {}
    /\ peripheral_name = <<>>
    /\ peripheral_base_address = <<>>
    /\ out = <<>>

InitRegister ==
    /\ \E pl \in Places, size \in SizeTexts, shape \in Shapes :
        \E n \in 0..MaxFields :
            \E fields \in [1..n -> Fields] :
                doc = RegisterDoc(pl, size, shape, fields)
    /\ pi = 1
    /\ ri = 0
    /\ pc = "periph"
    /\ peripheral = {}
    /\ peripheral_name = <<>>
    /\ peripheral_base_address = <<>>
    /\ out = <<>>

\* Lines 9-20, and line 23 when the derivedFrom lookup returned None.
\* Line 10 raises when <name> is absent, line 11 when <baseAddress> is,
\* line 13 when <name> is without content, line 19 when the path that holds
\* the derivedFrom text is not one that find accepts.
StartPeripheral ==
    /\ pc = "periph"
    /\ pi <= Len(doc)
    /\ LET p == doc[pi] IN
        IF p.name = {}
        THEN /\ peripheral' = {PeripheralNode(pi)}
             /\ pc' = "error"
             /\ UNCHANGED <<peripheral_name, peripheral_base_address, out>>
        ELSE IF p.baseAddress = {}
        THEN /\ peripheral' = {PeripheralNode(pi)}
             /\ peripheral_name' = Text(p.name)
             /\ pc' = "error"
             /\ UNCHANGED <<peripheral_base_address, out>>
        ELSE IF Text(p.name) = <<>>
        THEN /\ peripheral' = {PeripheralNode(pi)}
             /\ peripheral_name' = Text(p.name)
             /\ peripheral_base_address' = Text(p.baseAddress)
             /\ out' = out \o Banner(p)
             /\ pc' = "error"
        ELSE \E source \in {RegisterSource(pi)} :
             /\ peripheral_name' = Text(p.name)
             /\ peripheral_base_address' = Text(p.baseAddress)
             /\ out' = out \o Banner(p)
             /\ peripheral' = IF source.raised THEN {PeripheralNode(pi)}
                              ELSE source.found
             /\ pc' = IF source.raised \/ source.found = {} THEN "error"
                      ELSE "regs"
    /\ ri' = 1
    /\ UNCHANGED <<doc, pi>>

\* Lines 23-28: one iteration of the register loop.
ProcessRegister ==
    /\ pc = "regs"
    /\ \E registers \in {Registers(Text(peripheral))} :
        /\ ri <= Len(registers)
        /\ \E result \in {extract_typedef(registers[ri], peripheral_name,
                                           peripheral_base_address)} :
            /\ out' = out \o Printed(result)
            /\ pc' = IF result.ok THEN "regs" ELSE "error"
            /\ ri' = IF result.ok THEN ri + 1 ELSE ri
    /\ UNCHANGED <<doc, pi, peripheral, peripheral_name,
                   peripheral_base_address>>

\* Lines 29-31: the register loop is exhausted.
EndPeripheral ==
    /\ pc = "regs"
    /\ ri > Len(Registers(Text(peripheral)))
    /\ out' = Append(out, BlankLine)
    /\ pi' = pi + 1
    /\ pc' = "periph"
    /\ UNCHANGED <<doc, ri, peripheral, peripheral_name,
                   peripheral_base_address>>

\* Line 32: the peripheral loop is exhausted.
Return ==
    /\ pc = "periph"
    /\ pi > Len(doc)
    /\ pc' = "done"
    /\ UNCHANGED <<doc, pi, ri, peripheral, peripheral_name,
                   peripheral_base_address, out>>

Next == StartPeripheral \/ ProcessRegister \/ EndPeripheral \/ Return

Spec == Init /\ [][Next]_vars

SpecRegister == InitRegister /\ [][Next]_vars


-----------------------------------------------------------------------------
(* Reading the output back: sections, blocks, members.                     *)

OpenIdx == {i \in DOMAIN out : out[i].kind = "open"}

BannerIdx == {i \in DOMAIN out : out[i].kind = "banner"}

\* The peripheral under whose banner line i was printed.
SectionOf(i) == Cardinality({j \in BannerIdx : j <= i})

\* The rank of the block that starts at line i among its section's blocks:
\* the 'typedef struct' lines up to i that no banner separates from i.
OrdinalOf(i) ==
    Cardinality({j \in OpenIdx :
                    j <= i /\ \A k \in BannerIdx : ~(j < k /\ k <= i)})

\* A block runs from its 'typedef struct' line to the line before the next
\* empty line (or to the end of the output).
BlockEnd(i) ==
    IF \E j \in (i + 1)..Len(out) : out[j].kind = "blank"
    THEN (CHOOSE j \in (i + 1)..Len(out) :
            /\ out[j].kind = "blank"
            /\ \A k \in (i + 1)..(j - 1) : out[k].kind # "blank") - 1
    ELSE Len(out)

BlockLines(i) == SubSeq(out, i, BlockEnd(i))

IsMember(l) == l.kind = "member"
MembersOf(i) == SelectSeq(BlockLines(i), IsMember)

\* The open line of the j-th block of section s, as a set (empty if none).
BlockOf(s, j) == {i \in OpenIdx : SectionOf(i) = s /\ OrdinalOf(i) = j}

\* The registers iterated under the banner of doc[s]: those of line 23, or
\* none when line 19 raised or found nothing.
IteratedRegisters(s) ==
    LET source == RegisterSource(s)
    IN  IF source.raised \/ source.found = {} THEN <<>>
        ELSE Registers(Text(source.found))

\* The register whose block starts at line i.
RegisterOf(i) ==
    Head(SubSeq(IteratedRegisters(SectionOf(i)), OrdinalOf(i), OrdinalOf(i)))

\* The blocks of the output: the line a block starts at and its register.
Blocks == {[open |-> i, register |-> RegisterOf(i)] : i \in OpenIdx}

RECURSIVE SumWidths(_)
SumWidths(ms) ==
    IF ms = <<>> THEN Zero ELSE BigAdd(Head(ms).width, SumWidths(Tail(ms)))

\* The declared size: a base-10 literal, or a hexadecimal one with 0x.
DeclaredSize(r) ==
    IF IntDec(Text(r.size)).ok THEN IntDec(Text(r.size)).val
    ELSE ToRadix(IntHex(Text(r.size)).val, 10)

\* The declared fields as numbers (for a register whose fields all parse).
FieldsParse(r) ==
    \A k \in DOMAIN r.fields :
        /\ r.fields[k].name # {} /\ r.fields[k].bitOffset # {}
        /\ r.fields[k].bitWidth # {}
        /\ IntDec(Text(r.fields[k].bitOffset)).ok
        /\ IntDec(Text(r.fields[k].bitWidth)).ok
\* The name as the program writes it ('None' for a name without content).
FieldName(r, k) == Format(Text(r.fields[k].name))
FieldOffset(r, k) == IntDec(Text(r.fields[k].bitOffset)).val
FieldWidth(r, k) == IntDec(Text(r.fields[k].bitWidth)).val
\* The last bit of the field: the field holds the bits from FieldOffset to
\* FieldEnd, none when its width is not positive.
FieldEnd(r, k) == BigAdd(BigAdd(FieldOffset(r, k), FieldWidth(r, k)), MinusOne)
FieldHasBits(r, k) == BigLess(Zero, FieldWidth(r, k))

\* The bits covered by the first k members of a member sequence.
StartOfMember(ms, k) == SumWidths(SubSeq(ms, 1, k - 1))

\* Two fields share a bit.
FieldsOverlap(r) ==
    \E a, b \in DOMAIN r.fields :
        /\ a # b
        /\ FieldHasBits(r, a) /\ FieldHasBits(r, b)
        /\ ~BigLess(FieldEnd(r, a), FieldOffset(r, b))
        /\ ~BigLess(FieldEnd(r, b), FieldOffset(r, a))
\* A field ends beyond the last bit of the register.
FieldBeyondSize(r) ==
    \E a \in DOMAIN r.fields :
        BigLess(DeclaredSize(r), BigAdd(FieldOffset(r, a), FieldWidth(r, a)))
\* The bits of the fields are the bits 0 .. size-1, each once: no two
\* fields share a bit, every field lies within the register, one field
\* starts at bit 0, and every field ends at the last bit of the register or
\* right before another field (no field has a bit when the size is not
\* positive).
FieldsCoverExactly(r) ==
    LET WithBits == {a \in DOMAIN r.fields : FieldHasBits(r, a)}
        LastBit == BigAdd(DeclaredSize(r), MinusOne)
    IN  /\ ~FieldsOverlap(r)
        /\ IF BigLess(Zero, DeclaredSize(r))
           THEN /\ \E a \in WithBits : FieldOffset(r, a) = Zero
                /\ \A a \in WithBits :
                    /\ ~BigLess(FieldOffset(r, a), Zero)
                    /\ ~BigLess(LastBit, FieldEnd(r, a))
                    /\ \/ FieldEnd(r, a) = LastBit
                       \/ \E b \in WithBits :
                            FieldOffset(r, b) = BigAdd(FieldEnd(r, a), One)
           ELSE WithBits = {}

-----------------------------------------------------------------------------
(* Claims.                                                                 *)

\* C1: for every register with a block in the output, the widths of the
\* struct members between 'typedef struct' and '}' sum to the declared size.
C1_WidthsSumToSize ==
    \A b \in Blocks :
        SumWidths(MembersOf(b.open)) = DeclaredSize(b.register)

\* C2: the members of every block, laid end to end from bit 0, cover
\* [0, size) exactly once: positive widths, total width size, and the named
\* member of every declared field sits at the field's bitOffset with the
\* field's bitWidth.
C2_MembersCoverExactlyOnce ==
    \A b \in Blocks :
        LET r == b.register
            ms == MembersOf(b.open)
        IN  /\ \A k \in DOMAIN ms : BigLess(Zero, ms[k].width)
            /\ SumWidths(ms) = DeclaredSize(r)
            /\ \A f \in DOMAIN r.fields :
                \E k \in DOMAIN ms :
                    /\ ms[k].name = FieldName(r, f)
                    /\ ms[k].width = FieldWidth(r, f)
                    /\ StartOfMember(ms, k) = FieldOffset(r, f)

\* C3: a register with two overlapping fields, or with a field that ends
\* beyond the declared size, never has any text in the output.
C3_InconsistentLayoutIsFatal ==
    \A b \in Blocks :
        ~(FieldsOverlap(b.register) \/ FieldBeyondSize(b.register))

\* C5: in every block the two macros are at base + addressOffset; they are
\* plain pointers (to the storage type and to the struct type) when the
\* register has a dim element, and dereferenced pointers when it has none.
C5_MacroFormAndAddress ==
    \A b \in Blocks :
        LET r == b.register
            lines == BlockLines(b.open)
            n == Len(lines)
            address == BigAdd(IntHex(Text(doc[SectionOf(b.open)]
                                          .baseAddress)).val,
                              IntHex(Text(r.addressOffset)).val)
        IN  /\ n >= 4
            /\ lines[n - 2].kind = "close"
            /\ lines[n - 1].kind = "macro" /\ lines[n].kind = "macro"
            /\ lines[n - 1].deref = (r.dim = {})
            /\ lines[n].deref = (r.dim = {})
            /\ lines[n - 1].addr = Hex(address)
            /\ lines[n].addr = Hex(address)
            /\ lines[n - 1].type = get_register_type(DeclaredSize(r))
            /\ lines[n].type = lines[n - 2].name

\* C5 witness: the block of an array register with a non-zero dimIncrement,
\* at a non-zero offset, has been printed and the run has returned.
C5_Witness ==
    /\ pc = "done"
    /\ \E b \in Blocks :
        /\ b.register.dim # {}
        /\ BigLess(One, IntAuto(Text(b.register.dimIncrement)).val)
        /\ BigLess(Zero, IntHex(Text(b.register.addressOffset)).val)
        /\ b.register.fields # <<>>

\* C6: an array register resolves its size literal as the scalar register
\* with the same elements does: whenever the scalar twin yields a block, the
\* array register yields one with the same storage type and the same
\* members (names and widths).
C6_ArraySizeResolvedAsScalar ==
    (pc \in {"done", "error"} /\ ~Derived(doc[1])
     /\ doc[1].registers # <<>>) =>
        LET r == doc[1].registers[1]
            twin == [r EXCEPT !.dim = {}]
            scalar == extract_typedef(twin, Text(doc[1].name),
                                      Text(doc[1].baseAddress))
            view(l) == [type |-> l.type, name |-> l.name, width |-> l.width]
            views(ls) == [k \in DOMAIN ls |-> view(ls[k])]
        IN  (/\ r.dim # {} /\ IntDec(Text(r.dim)).ok
             /\ r.dimIncrement # {} /\ r.dimIndex # {}
             /\ scalar.ok) =>
                /\ BlockOf(1, 1) # {}
                /\ \A i \in BlockOf(1, 1) :
                    views(MembersOf(i))
                        = views(SelectSeq(scalar.lines, IsMember))

\* C7: a register without fields, whatever its declared size, yields exactly
\* one member, unnamed, as wide as the declared size.
C7_NoFieldsOneReserved ==
    \A b \in Blocks :
        b.register.fields = <<>> =>
            LET ms == MembersOf(b.open)
            IN  /\ Len(ms) = 1
                /\ ms[1].name = <<>>
                /\ ms[1].width = DeclaredSize(b.register)

\* C7, for the sizes it holds for: a register without fields yields exactly
\* one member, unnamed, as wide as the declared size, when that size is
\* positive, and no member at all when the size is zero or negative (the
\* test of lines 98 and 139, -1 < size - 1, is then false).
C7_NoFieldsOneReservedPositiveSize ==
    \A b \in Blocks :
        b.register.fields = <<>> =>
            LET ms == MembersOf(b.open)
                size == DeclaredSize(b.register)
            IN  IF BigLess(Zero, size)
                THEN /\ Len(ms) = 1
                     /\ ms[1].name = <<>>
                     /\ ms[1].width = size
                ELSE ms = <<>>

\* C7 witness: the block of an array register without fields has been
\* printed, with a positive size that has no fixed-width C type, and holds
\* its one member.
C7_Witness ==
    /\ pc = "done"
    /\ \E b \in Blocks :
        /\ b.register.fields = <<>>
        /\ b.register.dim # {}
        /\ DeclaredSize(b.register) = PyInt(12)
        /\ Len(MembersOf(b.open)) = 1

\* C8: a register whose declared fields cover [0, size) without gaps and
\* overlaps yields one named member per field and no unnamed member.
C8_FullCoverNoReserved ==
    \A b \in Blocks :
        LET r == b.register
            ms == MembersOf(b.open)
        IN  FieldsCoverExactly(r) =>
                /\ \A k \in DOMAIN ms : ms[k].name # <<>>
                /\ Len(ms) = Len(r.fields)
                /\ \A f \in DOMAIN r.fields :
                    \E k \in DOMAIN ms :
                        /\ ms[k].name = FieldName(r, f)
                        /\ ms[k].width = FieldWidth(r, f)

\* C8 as amended: when, in addition, the fields have pairwise distinct
\* names, the members are exactly the fields in ascending bitOffset order,
\* each with its name and width, also when a field is named RESERVED.
C8_FullCoverDistinctNames ==
    \A b \in Blocks :
        LET r == b.register
            ms == MembersOf(b.open)
        IN  (/\ FieldsCoverExactly(r)
             /\ \A f, g \in DOMAIN r.fields :
                    f # g => FieldName(r, f) # FieldName(r, g)) =>
                /\ \A k \in DOMAIN ms : ms[k].name # <<>>
                /\ Len(ms) = Len(r.fields)
                /\ \A f \in DOMAIN r.fields :
                    \E k \in DOMAIN ms :
                        /\ ms[k].name = FieldName(r, f)
                        /\ ms[k].width = FieldWidth(r, f)
                        /\ StartOfMember(ms, k) = FieldOffset(r, f)

\* C8 witness: size 8 with PRI at bits 6..7 declared before RESERVED at bits
\* 0..5 has been printed as [RESERVED:6, PRI:2].
C8_Witness ==
    \E b \in Blocks :
        /\ DeclaredSize(b.register) = PyInt(8)
        /\ Len(b.register.fields) = 2
        /\ b.register.fields[1] = Field(PRI, Codes("6"), Codes("2"))
        /\ b.register.fields[2] = Field(RESERVED, Codes("0"), Codes("6"))
        /\ Len(MembersOf(b.open)) = 2
        /\ MembersOf(b.open)[1].name = RESERVED
        /\ MembersOf(b.open)[1].width = PyInt(6)
        /\ MembersOf(b.open)[2].name = PRI
        /\ MembersOf(b.open)[2].width = PyInt(2)

-----------------------------------------------------------------------------
(* Claims about a run over several peripherals.                            *)

SectionCount == Cardinality(BannerIdx)
SectionLines(s) ==
    LET first == CHOOSE b \in BannerIdx : SectionOf(b) = s
        later == {b \in BannerIdx : b > first}
        last == IF later = {} THEN Len(out)
                ELSE (CHOOSE b \in later : \A c \in later : b <= c) - 1
    IN  SubSeq(out, first, last)
IsClose(l) == l.kind = "close"
SectionSymbols(s) ==
    LET cs == SelectSeq(SectionLines(s), IsClose)
    IN  [k \in DOMAIN cs |-> cs[k].name]
SectionDone(s) == s < pi \/ pc = "done"

\* What is compared between two blocks: storage type, names and widths.
MemberView(ms) ==
    [k \in DOMAIN ms |->
        [type |-> ms[k].type, name |-> ms[k].name, width |-> ms[k].width]]

\* The first <peripheral> element whose name is exactly n, as a set (empty
\* if there is none).
FirstNamed(n) ==
    {i \in DOMAIN doc :
        doc[i].name = {n} /\ \A j \in 1..(i - 1) : doc[j].name # {n}}

\* C4: every block printed for a derived peripheral P2 has the members of
\* the block of the same rank printed for the peripheral P1 that its
\* derivedFrom names.
C4_DerivedMatchesEmittedOriginal ==
    \A s \in 1..SectionCount :
        (Derived(doc[s])
         /\ FirstNamed(Text(doc[s].derivedFrom)) # {}) =>
            \A q \in FirstNamed(Text(doc[s].derivedFrom)) :
                \A i \in OpenIdx, i2 \in OpenIdx :
                    (SectionOf(i) = s /\ SectionOf(i2) = q
                     /\ OrdinalOf(i) = OrdinalOf(i2)) =>
                        MemberView(MembersOf(i)) = MemberView(MembersOf(i2))

\* C4, where the peripheral P1 that derivedFrom names has no derivedFrom of
\* its own (its blocks are then those of its own registers): every block
\* printed for P2 has the members of the block of the same rank printed for
\* P1.  Line 19 selects by the path it builds from the text, not by the
\* name, so this fails as well.
C4_DerivedMatchesUnderivedOriginal ==
    \A s \in 1..SectionCount :
        (Derived(doc[s])
         /\ FirstNamed(Text(doc[s].derivedFrom)) # {}) =>
            \A q \in FirstNamed(Text(doc[s].derivedFrom)) :
                ~Derived(doc[q]) =>
                    \A i \in OpenIdx, i2 \in OpenIdx :
                        (SectionOf(i) = s /\ SectionOf(i2) = q
                         /\ OrdinalOf(i) = OrdinalOf(i2)) =>
                            MemberView(MembersOf(i))
                                = MemberView(MembersOf(i2))

\* C9, the state part: every line of a block follows another line of a
\* block (so it belongs to the block opened by the last 'typedef struct'
\* line before it), every block in the output is the complete text of its
\* register (struct lines, then both macros) followed by the empty line, and
\* the section being processed holds the blocks of the registers before the
\* current one and nothing of the current one.
C9_BlocksComplete ==
    /\ \A i \in DOMAIN out :
        out[i].kind \in {"member", "close", "macro"} =>
            i > 1 /\ out[i - 1].kind \in {"open", "member", "close", "macro"}
    /\ \A s \in 1..SectionCount :
        \A regs \in {IteratedRegisters(s)} :
            \A o \in OpenIdx :
                SectionOf(o) = s =>
                    /\ OrdinalOf(o) <= Len(regs)
                    /\ \A whole \in {extract_typedef(
                                        regs[OrdinalOf(o)], Text(doc[s].name),
                                        Text(doc[s].baseAddress))} :
                        LET n == Len(whole.lines)
                            b == SubSeq(out, o, o + n - 1)
                        IN  /\ whole.ok
                            /\ o + n <= Len(out)
                            /\ b = whole.lines
                            /\ out[o + n].kind = "blank"
                            /\ n >= 4
                            /\ \A k \in 2..(n - 3) : b[k].kind = "member"
                            /\ b[n - 2].kind = "close"
                            /\ b[n - 1].kind = "macro"
                            /\ b[n].kind = "macro"
                            /\ b[n].name = b[n - 1].name \o Bits
    /\ pc \in {"regs", "error"} =>
        Cardinality({o \in OpenIdx : SectionOf(o) = pi}) = ri - 1

\* C9: the output holds only complete blocks at every point of a run, and
\* nothing is written once the run has ended in an error.
C9_RegisterOutputAtomic ==
    []C9_BlocksComplete /\ [][pc = "error" => out' = out]_vars

\* C9 witness: a run that has printed a complete block has ended in an error
\* raised by a register after 'typedef struct' was put in typedef_str_list.
C9_Witness ==
    /\ pc = "error"
    /\ OpenIdx # {}
    /\ peripheral # {}
    /\ \E regs \in {IteratedRegisters(pi)} :
        /\ ri <= Len(regs)
        /\ \E result \in {extract_typedef(regs[ri], peripheral_name,
                                          peripheral_base_address)} :
            ~result.ok /\ result.lines # <<>>

\* C10: under a derived peripheral P the blocks printed are those of the
\* registers of the first peripheral named by derivedFrom, in document
\* order, each once: a prefix of them while P is processed, all of them when
\* P is finished; nothing when no peripheral has that name.
C10_OneLevelDerivation ==
    \A s \in 1..SectionCount :
        Derived(doc[s]) =>
            LET q == FirstNamed(Text(doc[s].derivedFrom))
                regs == IF q = {} THEN <<>>
                        ELSE doc[CHOOSE i \in q : TRUE].registers
                expected == [k \in DOMAIN regs |->
                                Symbol(Text(doc[s].name), Text(regs[k].name))
                                \o BitsT]
                got == SectionSymbols(s)
            IN  /\ Len(got) <= Len(expected)
                /\ got = SubSeq(expected, 1, Len(got))
                /\ SectionDone(s) => got = expected

====
